---- MODULE Spec2Model ----
(***************************************************************************)
(* Model of utf8_utils (src/src/lib.rs): the UTF8Utils byte-sequence        *)
(* transformations and the UTF8Parser cursor with its std::io::Read impl.   *)
(*                                                                          *)
(* Four specifications share the module:                                    *)
(*   Spec      the cursor: Init is the state after UTF8Parser::new, one     *)
(*             action per public method, each executed as a whole call.     *)
(*   ConsSpec  Spec restricted to the delimiter reads, the skips, take_hex  *)
(*             and to_vec.                                                  *)
(*   LoopSpec  the cursor's calls run one loop iteration per step.          *)
(*   UtilSpec  the pure UTF8Utils functions applied to bounded inputs.      *)
(***************************************************************************)
EXTENDS Integers, Sequences, FiniteSets, TLC

\* ---------------------------------------------------------------- constants
NULL == 0
LF == 10
CR == 13
SP == 32
CRLF == <<CR, LF>>
HEX_DIGITS == <<48, 49, 50, 51, 52, 53, 54, 55, 56, 57, 65, 66, 67, 68, 69, 70,
                97, 98, 99, 100, 101, 102>>
CAPITALS == <<65, 66, 67, 68, 69, 70, 71, 72, 73, 74, 75, 76, 77, 78, 79, 80,
              81, 82, 83, 84, 85, 86, 87, 88, 89, 90>>

\* ------------------------------------------------------------------- bounds
MaxLen == 3      \* longest buffer handed to UTF8Parser::new
MaxCap == 2      \* longest destination slice handed to Read::read
MaxSeq == 4      \* longest sequence handed to a UTF8Utils function
MaxPat == 2      \* longest pattern handed to trim_chars
MaxLines == 2    \* most CR LF terminated lines in a line-structured buffer
MaxLoop == 3     \* longest free-form buffer whose calls are run one iteration at a time

\* Byte values the cursor's buffers are drawn from: NUL, LF, CR, SP, 'A' (a
\* hex digit) and 0xFF (not a hex digit, never valid in UTF-8).
Bytes == {NULL, LF, CR, SP, 65, 255}
PatBytes == {CR, LF, 65}
\* Byte values the UTF8Utils inputs are drawn from: NUL, LF, CR, 'A' and 'a'
\* (hex digits, a capital and its lower case), 'Z' (capital, not hex), 0xFF.
UtilBytes == {NULL, LF, CR, 65, 90, 97, 255}
\* what a destination slice holds before Read::read: zeroes, as in [0u8; c]
Fills == {NULL}

RECURSIVE SeqsUpTo(_, _)
SeqsUpTo(S, n) ==
    IF n = 0 THEN {<<>>}
    ELSE LET shorter == SeqsUpTo(S, n - 1)
         IN  shorter \cup {Append(s, b) : s \in {t \in shorter : Len(t) = n - 1}, b \in S}

\* non-empty lines without a CR LF pair and without NUL: "A", "BB", "A\r",
\* "\n", "\rA"
SampleLines == {<<65>>, <<66, 66>>, <<65, CR>>, <<LF>>, <<CR, 65>>}

\* every sequence of at most n sample lines
RECURSIVE LinesUpTo(_)
LinesUpTo(n) ==
    IF n = 0 THEN {<<>>}
    ELSE LET fewer == LinesUpTo(n - 1)
         IN  fewer \cup {Append(ls, l) : ls \in {t \in fewer : Len(t) = n - 1},
                                         l \in SampleLines}

\* the buffer made of the lines ls, each followed by CR LF
RECURSIVE JoinCrlf(_)
JoinCrlf(ls) == IF ls = <<>> THEN <<>> ELSE Head(ls) \o CRLF \o JoinCrlf(Tail(ls))

LineBuffers == {JoinCrlf(ls) : ls \in LinesUpTo(MaxLines)}

\* longer buffers of the documented examples: "1a2Zx", "A\rB\r\n", "foo\x00bar"
SampleBuffers == {<<49, 97, 50, 90, 120>>, <<65, CR, 66, CR, LF>>,
                  <<102, 111, 111, NULL, 98, 97, 114>>}

Buffers == SeqsUpTo(Bytes, MaxLen) \cup LineBuffers \cup SampleBuffers
\* buffers and arguments of the calls that are run one loop iteration at a time
LoopBytes == {LF, CR, 65, 90}
LoopBuffers == SeqsUpTo(LoopBytes, MaxLoop) \cup LineBuffers
LoopDelims == {LF, 65}
UtilSeqs == SeqsUpTo(UtilBytes, MaxSeq)
Patterns == SeqsUpTo(PatBytes, MaxPat)
\* contents a caller's Vec<u8> may already hold when it is passed as `buf`
Intos == {<<>>, <<SP>>}
\* byte sets handed to skip_chars
SkipSets == {<<>>, <<SP>>, <<CR, LF>>, <<65, 255>>}

\* ----------------------------------------------------- slice / Vec helpers
contains(chars, c) == \E i \in 1..Len(chars) : chars[i] = c

ends_with(vec, needle) ==
    /\ Len(needle) <= Len(vec)
    /\ SubSeq(vec, Len(vec) - Len(needle) + 1, Len(vec)) = needle

pop(vec) == IF vec = <<>> THEN vec ELSE SubSeq(vec, 1, Len(vec) - 1)

RECURSIVE popN(_, _)
popN(vec, n) == IF n = 0 THEN vec ELSE popN(pop(vec), n - 1)

Min(a, b) == IF a <= b THEN a ELSE b

\* s is p followed by something / s ends in t
IsPrefix(p, s) == Len(p) <= Len(s) /\ SubSeq(s, 1, Len(p)) = p
IsSuffix(t, s) == ends_with(s, t)
Drop(s, n) == SubSeq(s, n + 1, Len(s))
Take(s, n) == SubSeq(s, 1, n)

\* ------------------------------------------------------------- UTF8Utils
REPLACEMENT == 65533

InRange(b, lo, hi) == b >= lo /\ b <= hi

IsCont(b) == InRange(b, 128, 191)

\* One step of String::from_utf8_lossy at the head of a non-empty s: the
\* number of bytes taken and the code point produced (U+FFFD for a maximal
\* invalid prefix).
utf8_chunk(s) ==
    LET b0 == s[1]
        n  == Len(s)
        bad(k) == [len |-> k, cp |-> REPLACEMENT]
    IN  IF b0 < 128 THEN [len |-> 1, cp |-> b0]
        ELSE IF InRange(b0, 194, 223) THEN
            IF n >= 2 /\ IsCont(s[2])
            THEN [len |-> 2, cp |-> (b0 % 32) * 64 + (s[2] % 64)]
            ELSE bad(1)
        ELSE IF InRange(b0, 224, 239) THEN
            LET lo2 == IF b0 = 224 THEN 160 ELSE 128
                hi2 == IF b0 = 237 THEN 159 ELSE 191
            IN  IF ~(n >= 2 /\ InRange(s[2], lo2, hi2)) THEN bad(1)
                ELSE IF ~(n >= 3 /\ IsCont(s[3])) THEN bad(2)
                ELSE [len |-> 3,
                      cp |-> (b0 % 16) * 4096 + (s[2] % 64) * 64 + (s[3] % 64)]
        ELSE IF InRange(b0, 240, 244) THEN
            LET lo2 == IF b0 = 240 THEN 144 ELSE 128
                hi2 == IF b0 = 244 THEN 143 ELSE 191
            IN  IF ~(n >= 2 /\ InRange(s[2], lo2, hi2)) THEN bad(1)
                ELSE IF ~(n >= 3 /\ IsCont(s[3])) THEN bad(2)
                ELSE IF ~(n >= 4 /\ IsCont(s[4])) THEN bad(3)
                ELSE [len |-> 4,
                      cp |-> (b0 % 8) * 262144 + (s[2] % 64) * 4096
                             + (s[3] % 64) * 64 + (s[4] % 64)]
        ELSE bad(1)

\* as_utf8_lossy: the text as a sequence of code points
RECURSIVE as_utf8_lossy(_)
as_utf8_lossy(s) ==
    IF s = <<>> THEN <<>>
    ELSE LET c == utf8_chunk(s)
         IN  <<c.cp>> \o as_utf8_lossy(Drop(s, c.len))

is_hex_any(s) == \E i \in 1..Len(s) : contains(HEX_DIGITS, s[i])

is_hex(s) == \A i \in 1..Len(s) : contains(HEX_DIGITS, s[i])

lower_byte_short(c) == IF c >= 65 /\ c < 90 THEN (c + 32) % 256 ELSE c

lower_byte(c) == IF contains(CAPITALS, c) THEN (c + 32) % 256 ELSE c

as_lower(s) == [i \in 1..Len(s) |-> lower_byte(s[i])]

to_lower(s) == [i \in 1..Len(s) |-> lower_byte(s[i])]

strip_null_keep(s) == s

RECURSIVE strip_null_trailing(_)
strip_null_trailing(s) ==
    IF s # <<>> /\ s[Len(s)] = NULL THEN strip_null_trailing(pop(s)) ELSE s

strip_null(s) == SelectSeq(s, LAMBDA b : b # NULL)

trim_crlf_once(s) ==
    IF ends_with(s, CRLF) /\ s # <<>> THEN pop(pop(s)) ELSE s

RECURSIVE trim_crlf(_)
trim_crlf(s) ==
    IF ends_with(s, CRLF) /\ s # <<>> THEN trim_crlf(pop(pop(s))) ELSE s

RECURSIVE trim_chars_repeat(_, _)
trim_chars_repeat(s, chars) ==
    IF ends_with(s, chars) /\ s # <<>> /\ chars # <<>>
    THEN trim_chars_repeat(popN(s, Len(chars)), chars)
    ELSE s

\* the loop body ends in `break`, so it runs at most once
trim_chars(s, chars) ==
    IF ends_with(s, chars) /\ s # <<>> THEN popN(s, Len(chars)) ELSE s

UTF8Parser_new(buffer_) == strip_null(buffer_)

into_utf8_parser(s) == UTF8Parser_new(s)

UTF8Parser_from(s) == into_utf8_parser(s)

\* ------------------------------------------------------------ UTF8Parser
\* A call's outcome: the iterator left behind, the destination after the
\* call and the count returned.
Outcome(it, b, n) == [iter |-> it, buf |-> b, ret |-> n]

\* Peekable::next_if(|b| *b == byte): TRUE when the next byte is consumed
next_if_eq(it, byte) == it # <<>> /\ Head(it) = byte

RECURSIVE read_to_crlf_lone_cr(_, _, _)
read_to_crlf_lone_cr(it, b, read) ==
    IF it = <<>> THEN Outcome(it, b, read)
    ELSE LET byte == Head(it)
             rest == Tail(it)
         IN  IF byte = CR
             THEN Outcome(IF next_if_eq(rest, LF) THEN Tail(rest) ELSE rest, b, read)
             ELSE read_to_crlf_lone_cr(rest, Append(b, byte), read + 1)

\* the `while let Some(byte) = self.iter.next()` loop of read_to_crlf
RECURSIVE read_to_crlf_loop(_, _, _)
read_to_crlf_loop(it, b, read) ==
    IF it = <<>> THEN Outcome(it, b, read)
    ELSE LET byte == Head(it)
             rest == Tail(it)
         IN  IF byte = CR /\ next_if_eq(rest, LF)
             THEN Outcome(Tail(rest), b, read)
             ELSE read_to_crlf_loop(rest, Append(b, byte), read + 1)

read_to_crlf(it, b) == read_to_crlf_loop(it, b, 0)

\* take_crlf_strings: [iter, lines] with each line lossily decoded
RECURSIVE take_crlf_strings(_, _)
take_crlf_strings(it, lines_) ==
    LET r == read_to_crlf(it, <<>>)
    IN  IF r.ret = 0 THEN [iter |-> r.iter, lines |-> lines_]
        ELSE take_crlf_strings(r.iter, Append(lines_, as_utf8_lossy(r.buf)))

RECURSIVE take_crlf_keep_empty(_, _)
take_crlf_keep_empty(it, lines_) ==
    LET r == read_to_crlf(it, <<>>)
    IN  IF r.ret = 0 THEN [iter |-> r.iter, lines |-> Append(lines_, r.buf)]
        ELSE take_crlf_keep_empty(r.iter, Append(lines_, r.buf))

\* take_crlf: [iter, lines] with each line as raw bytes
RECURSIVE take_crlf(_, _)
take_crlf(it, lines_) ==
    LET r == read_to_crlf(it, <<>>)
    IN  IF r.ret = 0 THEN [iter |-> r.iter, lines |-> lines_]
        ELSE take_crlf(r.iter, Append(lines_, r.buf))

RECURSIVE read_to_char_keep(_, _, _, _)
read_to_char_keep(it, char, b, read) ==
    IF it = <<>> THEN Outcome(it, b, read)
    ELSE LET byte == Head(it)
         IN  IF byte = char THEN Outcome(Tail(it), Append(b, byte), read + 1)
             ELSE read_to_char_keep(Tail(it), char, Append(b, byte), read + 1)

RECURSIVE read_to_char_loop(_, _, _, _)
read_to_char_loop(it, char, b, read) ==
    IF it = <<>> THEN Outcome(it, b, read)
    ELSE LET byte == Head(it)
         IN  IF byte = char THEN Outcome(Tail(it), b, read)
             ELSE read_to_char_loop(Tail(it), char, Append(b, byte), read + 1)

read_to_char(it, char, b) == read_to_char_loop(it, char, b, 0)

read_to_space(it, b) == read_to_char(it, SP, b)

read_to_lf(it, b) == read_to_char(it, LF, b)

read_to_null_sp(it, b) == read_to_char(it, SP, b)

read_to_null(it, b) == read_to_char(it, NULL, b)

RECURSIVE skip_chars_next(_, _)
skip_chars_next(it, chars) ==
    IF it = <<>> THEN it
    ELSE IF contains(chars, Head(it)) THEN skip_chars_next(Tail(it), chars)
    ELSE Tail(it)

skip_chars_filter(it, chars) == SelectSeq(it, LAMBDA c : ~contains(chars, c))

RECURSIVE skip_chars(_, _)
skip_chars(it, chars) ==
    IF it # <<>> /\ contains(chars, Head(it)) THEN skip_chars(Tail(it), chars) ELSE it

RECURSIVE skip_to_crlf_lone_cr(_)
skip_to_crlf_lone_cr(it) ==
    IF it = <<>> THEN it
    ELSE IF Head(it) = CR
         THEN (IF next_if_eq(Tail(it), LF) THEN Tail(Tail(it)) ELSE Tail(it))
    ELSE skip_to_crlf_lone_cr(Tail(it))

RECURSIVE skip_to_crlf(_)
skip_to_crlf(it) ==
    IF it = <<>> THEN it
    ELSE IF Head(it) = CR /\ next_if_eq(Tail(it), LF) THEN Tail(Tail(it))
    ELSE skip_to_crlf(Tail(it))

to_vec_skip(it) == IF it = <<>> THEN it ELSE Tail(it)

to_vec(it) == it

RECURSIVE take_hex_loop_next(_, _)
take_hex_loop_next(it, hex) ==
    IF it = <<>> THEN [iter |-> it, buf |-> hex]
    ELSE IF contains(HEX_DIGITS, Head(it))
         THEN take_hex_loop_next(Tail(it), Append(hex, Head(it)))
    ELSE [iter |-> Tail(it), buf |-> hex]

RECURSIVE take_hex_loop(_, _)
take_hex_loop(it, hex) ==
    IF it # <<>> /\ contains(HEX_DIGITS, Head(it))
    THEN take_hex_loop(Tail(it), Append(hex, Head(it)))
    ELSE [iter |-> it, buf |-> hex]

take_hex(it) == take_hex_loop(it, <<>>)

\* ---- Read::read, load_buf, calc_read
\* usize arithmetic is modular.  UsizeModulus stands for 2^64: TLC's integers
\* are 32 bits wide, and every modulus larger than the lengths involved gives
\* load_buf's loop the same course.
UsizeModulus == 2^30

Builds == {"debug", "release"}

\* calc_read: bytes.len() - buf.len() in usize.  `val` is the wrapped
\* difference, `underflow` tells that the subtraction went below zero (a
\* panic under overflow checks, a wrap-around without them).
calc_read(bufLen, bytesLen) ==
    [val |-> (bytesLen - bufLen) % UsizeModulus, underflow |-> bytesLen < bufLen]

\* `for num in 0..read { buf[num] = bytes[num]; }`: the right-hand side is
\* indexed first, then the destination; either index check may panic.
RECURSIVE load_loop(_, _, _, _)
load_loop(num, read, b, bytes) ==
    IF num >= read THEN [buf |-> b, oob |-> FALSE]
    ELSE IF num >= Len(bytes) \/ num >= Len(b) THEN [buf |-> b, oob |-> TRUE]
    ELSE load_loop(num + 1, read, [b EXCEPT ![num + 1] = bytes[num + 1]], bytes)

\* load_buf: [buf, ret, faults]; faults names what went wrong in the call
load_buf(b, bytes, build) ==
    IF Len(b) = 0 THEN [buf |-> b, ret |-> 0, faults |-> {}]
    ELSE LET c == calc_read(Len(b), Len(bytes))
         IN  IF c.underflow /\ build = "debug"
             THEN [buf |-> b, ret |-> 0, faults |-> {"underflow", "panic"}]
             ELSE LET l == load_loop(0, c.val, b, bytes)
                      u == IF c.underflow THEN {"underflow"} ELSE {}
                  IN  IF l.oob
                      THEN [buf |-> l.buf, ret |-> 0, faults |-> u \cup {"oob", "panic"}]
                      ELSE [buf |-> l.buf, ret |-> c.val, faults |-> u]

\* Read::read collects every remaining byte, then hands them to load_buf
Read_read(it, b, build) ==
    LET bytes == it
        l == load_buf(b, bytes, build)
    IN  [iter |-> <<>>, buf |-> l.buf, ret |-> l.ret, faults |-> l.faults]

Read_read_to_end(it, b) == read_to_null(it, b)

\* Read::read_to_string: the destination String is a sequence of code points
Read_read_to_string(it, text) ==
    LET r == read_to_crlf(it, <<>>)
    IN  Outcome(r.iter, text \o as_utf8_lossy(r.buf), Len(r.buf))

\* ------------------------------------------------------------------- state
VARIABLES
    buffer,   \* the bytes the cursor was constructed from
    iter,     \* UTF8Parser.iter: the bytes not yet consumed
    op,       \* the last call made on the cursor
    arg,      \* its byte or byte-set argument, as a sequence (<<>> for none)
    pre,      \* iter as it was when the call started
    into,     \* the caller's destination before the call
    buf,      \* the destination after the call (or the Vec returned)
    ret,      \* the count returned (0 when the call returns no count)
    lines,    \* the lines returned by take_crlf / take_crlf_strings
    faults,   \* "underflow", "oob", "panic": what went wrong in the call
    acct,     \* the bytes every call so far has emitted, skipped or discarded
    pc,       \* LoopSpec: "run" while the loop of the call op is running
    us,       \* UtilSpec: the sequence a UTF8Utils function is applied to
    up,       \* UtilSpec: the pattern argument of trim_chars
    uop,      \* UtilSpec: the function applied last
    ures      \* UtilSpec: its result

cvars == <<buffer, iter, op, arg, pre, into, buf, ret, lines, faults, acct, pc>>
uvars == <<us, up, uop, ures>>
vars == <<buffer, iter, op, arg, pre, into, buf, ret, lines, faults, acct, pc,
          us, up, uop, ures>>

Constructors == {"new", "into_utf8_parser", "from"}

Construct(ctor, b) ==
    CASE ctor = "new" -> UTF8Parser_new(b)
      [] ctor = "into_utf8_parser" -> into_utf8_parser(b)
      [] OTHER -> UTF8Parser_from(b)

UtilIdle == us = <<>> /\ up = <<>> /\ uop = "none" /\ ures = <<>>

Init ==
    /\ buffer \in Buffers
    /\ op \in Constructors
    /\ iter = Construct(op, buffer)
    /\ arg = <<>>
    /\ pre = buffer
    /\ into = <<>>
    /\ buf = <<>>
    /\ ret = 0
    /\ lines = <<>>
    /\ faults = {}
    /\ acct = <<>>
    /\ pc = "idle"
    /\ UtilIdle

\* a cursor can be called while it has not been consumed by to_vec and no
\* call on it has panicked
Live == op # "to_vec" /\ "panic" \notin faults

\* What a call accounts for, from what its caller sees: the bytes it
\* appended or returned, then the delimiter it discarded when it consumed
\* more than it appended.  A skipping call, and any call that is not a
\* delimiter read, accounts for the bytes it moved past.
Accounted(name, a, in, it, b, n) ==
    LET consumed == Len(iter) - Len(it)
        emitted == SubSeq(b, Len(in) + 1, Len(b))
    IN  CASE name = "read_to_crlf" -> emitted \o (IF consumed = n THEN <<>> ELSE CRLF)
          [] name = "read_to_char" -> emitted \o (IF consumed = n THEN <<>> ELSE a)
          [] name \in {"take_hex", "to_vec"} -> b
          [] name = "skip_to_crlf" ->
                IF consumed >= 2 /\ SubSeq(iter, consumed - 1, consumed) = CRLF
                THEN SubSeq(iter, 1, consumed - 2) \o CRLF
                ELSE SubSeq(iter, 1, consumed)
          [] OTHER -> SubSeq(iter, 1, consumed)

\* the common shape of a call: what it was, what it was given, what it left
Call(name, a, in, it, b, n, ls, fs) ==
    /\ op' = name
    /\ arg' = a
    /\ pre' = iter
    /\ into' = in
    /\ iter' = it
    /\ buf' = b
    /\ ret' = n
    /\ lines' = ls
    /\ faults' = fs
    /\ acct' = acct \o Accounted(name, a, in, it, b, n)
    /\ UNCHANGED <<buffer, pc, us, up, uop, ures>>

Counted(name, a, in, r) == Call(name, a, in, r.iter, r.buf, r.ret, <<>>, {})

ReadToCrlf ==
    /\ Live
    /\ \E in \in Intos : Counted("read_to_crlf", <<>>, in, read_to_crlf(iter, in))

TakeCrlfStrings ==
    /\ Live
    /\ LET r == take_crlf_strings(iter, <<>>)
       IN  Call("take_crlf_strings", <<>>, <<>>, r.iter, <<>>, 0, r.lines, {})

TakeCrlf ==
    /\ Live
    /\ LET r == take_crlf(iter, <<>>)
       IN  Call("take_crlf", <<>>, <<>>, r.iter, <<>>, 0, r.lines, {})

ReadToChar ==
    /\ Live
    /\ \E in \in Intos, d \in Bytes :
          Counted("read_to_char", <<d>>, in, read_to_char(iter, d, in))

ReadToSpace ==
    /\ Live
    /\ \E in \in Intos : Counted("read_to_space", <<SP>>, in, read_to_space(iter, in))

ReadToLf ==
    /\ Live
    /\ \E in \in Intos : Counted("read_to_lf", <<LF>>, in, read_to_lf(iter, in))

ReadToNull ==
    /\ Live
    /\ \E in \in Intos : Counted("read_to_null", <<NULL>>, in, read_to_null(iter, in))

SkipChars ==
    /\ Live
    /\ \E chars \in SkipSets :
          Call("skip_chars", chars, <<>>, skip_chars(iter, chars), <<>>, 0, <<>>, {})

SkipToCrlf ==
    /\ Live
    /\ Call("skip_to_crlf", <<>>, <<>>, skip_to_crlf(iter), <<>>, 0, <<>>, {})

\* to_vec takes the cursor by value: the Vec returned is in buf and no call
\* can follow
ToVec ==
    /\ Live
    /\ Call("to_vec", <<>>, <<>>, <<>>, to_vec(iter), 0, <<>>, {})

TakeHex ==
    /\ Live
    /\ LET r == take_hex(iter)
       IN  Call("take_hex", <<>>, <<>>, r.iter, r.buf, 0, <<>>, {})

\* Read::read into a slice of c bytes; a panic leaves ret without a value
\* (0 here) and ends the cursor's use
Read ==
    /\ Live
    /\ \E c \in 0..MaxCap, fill \in Fills, build \in Builds :
          LET dst == [i \in 1..c |-> fill]
              r == Read_read(iter, dst, build)
          IN  Call("read", <<>>, dst, r.iter, r.buf, r.ret, <<>>, r.faults)

ReadToEnd ==
    /\ Live
    /\ \E in \in Intos : Counted("read_to_end", <<NULL>>, in, Read_read_to_end(iter, in))

ReadToString ==
    /\ Live
    /\ \E in \in Intos :
          Counted("read_to_string", <<>>, as_utf8_lossy(in),
                  Read_read_to_string(iter, as_utf8_lossy(in)))

Next ==
    \/ ReadToCrlf
    \/ TakeCrlfStrings
    \/ TakeCrlf
    \/ ReadToChar
    \/ ReadToSpace
    \/ ReadToLf
    \/ ReadToNull
    \/ SkipChars
    \/ SkipToCrlf
    \/ ToVec
    \/ TakeHex
    \/ Read
    \/ ReadToEnd
    \/ ReadToString

Spec == Init /\ [][Next]_vars

\* the delimiter reads, the skips and take_hex, closed by to_vec
ConsNext ==
    \/ ReadToCrlf
    \/ ReadToChar
    \/ SkipChars
    \/ SkipToCrlf
    \/ TakeHex
    \/ ToVec

ConsSpec == Init /\ [][ConsNext]_vars

\* ------------------------------------------------------------- LoopSpec
\* The same calls, one loop iteration per step.  An iteration is a record
\* [iter, buf, ret, lines, faults, done]: what it leaves and whether it left
\* the loop.
Iteration(it, b, n, ls, fs, d) ==
    [iter |-> it, buf |-> b, ret |-> n, lines |-> ls, faults |-> fs, done |-> d]

\* read_to_crlf: one pass of `while let Some(byte) = self.iter.next()`
read_to_crlf_iter(it, b, read) ==
    IF it = <<>> THEN Iteration(it, b, read, <<>>, {}, TRUE)
    ELSE IF Head(it) = CR /\ next_if_eq(Tail(it), LF)
         THEN Iteration(Tail(Tail(it)), b, read, <<>>, {}, TRUE)
    ELSE Iteration(Tail(it), Append(b, Head(it)), read + 1, <<>>, {}, FALSE)

\* read_to_char: one pass of its while let loop
read_to_char_iter(it, char, b, read) ==
    IF it = <<>> THEN Iteration(it, b, read, <<>>, {}, TRUE)
    ELSE IF Head(it) = char THEN Iteration(Tail(it), b, read, <<>>, {}, TRUE)
    ELSE Iteration(Tail(it), Append(b, Head(it)), read + 1, <<>>, {}, FALSE)

\* skip_chars: one test of `while self.iter.next_if(..).is_some() {}`
skip_chars_iter(it, chars) ==
    IF it # <<>> /\ contains(chars, Head(it))
    THEN Iteration(Tail(it), <<>>, 0, <<>>, {}, FALSE)
    ELSE Iteration(it, <<>>, 0, <<>>, {}, TRUE)

\* skip_to_crlf: one pass of its while let loop
skip_to_crlf_iter(it) ==
    IF it = <<>> THEN Iteration(it, <<>>, 0, <<>>, {}, TRUE)
    ELSE IF Head(it) = CR /\ next_if_eq(Tail(it), LF)
         THEN Iteration(Tail(Tail(it)), <<>>, 0, <<>>, {}, TRUE)
    ELSE Iteration(Tail(it), <<>>, 0, <<>>, {}, FALSE)

\* take_hex: one pass of `while let Some(char) = self.iter.next_if(..)`
take_hex_iter(it, hex) ==
    IF it # <<>> /\ contains(HEX_DIGITS, Head(it))
    THEN Iteration(Tail(it), Append(hex, Head(it)), 0, <<>>, {}, FALSE)
    ELSE Iteration(it, hex, 0, <<>>, {}, TRUE)

\* Read::read: one pass of the loop that collects `bytes`; when the iterator
\* is empty the call ends with load_buf(dst, bytes)
Read_read_iter(it, bytes, dst, build) ==
    IF it # <<>> THEN Iteration(Tail(it), Append(bytes, Head(it)), 0, <<>>, {}, FALSE)
    ELSE LET l == load_buf(dst, bytes, build)
         IN  Iteration(it, l.buf, l.ret, <<>>, l.faults, TRUE)

\* an iteration that reads its line from a copy of the cursor
take_crlf_iter_clone(it, lines_) ==
    LET r == read_to_crlf(it, <<>>)
    IN  IF r.ret = 0 THEN Iteration(r.iter, <<>>, 0, lines_, {}, TRUE)
        ELSE Iteration(it, <<>>, 0, Append(lines_, r.buf), {}, FALSE)

\* take_crlf: one pass of `while let Ok(num) = self.read_to_crlf(&mut line)`
take_crlf_iter(it, lines_) ==
    LET r == read_to_crlf(it, <<>>)
    IN  IF r.ret = 0 THEN Iteration(r.iter, <<>>, 0, lines_, {}, TRUE)
        ELSE Iteration(r.iter, <<>>, 0, Append(lines_, r.buf), {}, FALSE)

\* take_crlf_strings: one pass of its while let loop
take_crlf_strings_iter(it, lines_) ==
    LET r == read_to_crlf(it, <<>>)
    IN  IF r.ret = 0 THEN Iteration(r.iter, <<>>, 0, lines_, {}, TRUE)
        ELSE Iteration(r.iter, <<>>, 0, Append(lines_, as_utf8_lossy(r.buf)), {}, FALSE)

LoopInit ==
    /\ buffer \in LoopBuffers
    /\ op = "new"
    /\ iter = UTF8Parser_new(buffer)
    /\ arg = <<>>
    /\ pre = buffer
    /\ into = <<>>
    /\ buf = <<>>
    /\ ret = 0
    /\ lines = <<>>
    /\ faults = {}
    /\ acct = <<>>
    /\ pc = "idle"
    /\ UtilIdle

\* a call is entered: its locals are fresh, its loop has yet to run
Enter(name, a, in) ==
    /\ pc \in {"idle", "done"}
    /\ "panic" \notin faults
    /\ op' = name
    /\ arg' = a
    /\ pre' = iter
    /\ into' = in
    /\ buf' = <<>>
    /\ ret' = 0
    /\ lines' = <<>>
    /\ faults' = {}
    /\ pc' = "run"
    /\ UNCHANGED <<buffer, iter, acct, us, up, uop, ures>>

Begin ==
    \/ \E name \in {"read_to_crlf", "skip_to_crlf", "take_hex", "take_crlf",
                     "take_crlf_strings"} : Enter(name, <<>>, <<>>)
    \/ \E d \in LoopDelims : Enter("read_to_char", <<d>>, <<>>)
    \/ \E chars \in SkipSets : Enter("skip_chars", chars, <<>>)
    \/ \E c \in 0..MaxCap : Enter("read", <<>>, [i \in 1..c |-> SP])

\* one iteration of the running loop
Step(name, r) ==
    /\ pc = "run"
    /\ op = name
    /\ iter' = r.iter
    /\ buf' = r.buf
    /\ ret' = r.ret
    /\ lines' = r.lines
    /\ faults' = r.faults
    /\ pc' = IF r.done THEN "done" ELSE "run"
    /\ UNCHANGED <<buffer, op, arg, pre, into, acct, us, up, uop, ures>>

IterReadToCrlf == Step("read_to_crlf", read_to_crlf_iter(iter, buf, ret))

IterReadToChar == Step("read_to_char", read_to_char_iter(iter, arg[1], buf, ret))

IterSkipChars == Step("skip_chars", skip_chars_iter(iter, arg))

IterSkipToCrlf == Step("skip_to_crlf", skip_to_crlf_iter(iter))

IterTakeHex == Step("take_hex", take_hex_iter(iter, buf))

IterRead == \E build \in Builds : Step("read", Read_read_iter(iter, buf, into, build))

IterTakeCrlf == Step("take_crlf", take_crlf_iter(iter, lines))

IterTakeCrlfStrings == Step("take_crlf_strings", take_crlf_strings_iter(iter, lines))

LoopIter ==
    \/ IterReadToCrlf
    \/ IterReadToChar
    \/ IterSkipChars
    \/ IterSkipToCrlf
    \/ IterTakeHex
    \/ IterRead
    \/ IterTakeCrlf
    \/ IterTakeCrlfStrings

LoopNext == Begin \/ LoopIter

\* a call that has been entered keeps running: the code is sequential
LoopSpec == LoopInit /\ [][LoopNext]_vars /\ WF_vars(LoopIter)

\* ------------------------------------------------------------- UtilSpec
CursorIdle ==
    /\ buffer = <<>> /\ iter = <<>> /\ op = "none" /\ arg = <<>> /\ pre = <<>>
    /\ into = <<>> /\ buf = <<>> /\ ret = 0 /\ lines = <<>> /\ faults = {}
    /\ acct = <<>> /\ pc = "idle"

UtilInit ==
    /\ us \in UtilSeqs
    /\ up = <<>>
    /\ uop = "input"
    /\ ures = <<>>
    /\ CursorIdle

Apply(name, p, r) ==
    /\ uop' = name
    /\ up' = p
    /\ ures' = r
    /\ UNCHANGED <<us, buffer, iter, op, arg, pre, into, buf, ret, lines, faults, acct, pc>>

IsHex == Apply("is_hex", <<>>, is_hex(us))

AsLower == Apply("as_lower", <<>>, as_lower(us))

ToLower == Apply("to_lower", <<>>, to_lower(us))

StripNull == Apply("strip_null", <<>>, strip_null(us))

TrimCrlf == Apply("trim_crlf", <<>>, trim_crlf(us))

TrimChars == \E p \in Patterns : Apply("trim_chars", p, trim_chars(us, p))

AsUtf8Lossy == Apply("as_utf8_lossy", <<>>, as_utf8_lossy(us))

UtilNext ==
    \/ IsHex
    \/ AsLower
    \/ ToLower
    \/ StripNull
    \/ TrimCrlf
    \/ TrimChars
    \/ AsUtf8Lossy

UtilSpec == UtilInit /\ [][UtilNext]_vars

\* ---------------------------------------------------------------- properties
\* position of the first adjacent CR LF pair of s (its CR), 0 when there is none
FirstCrlf(s) ==
    LET At(i) == s[i] = CR /\ s[i + 1] = LF
        P == {i \in 1..(Len(s) - 1) : At(i)}
    IN  IF P = {} THEN 0 ELSE CHOOSE i \in P : \A j \in P : i <= j

\* position of the first occurrence of byte d in s, 0 when there is none
FirstIndex(s, d) ==
    LET P == {i \in 1..Len(s) : s[i] = d}
    IN  IF P = {} THEN 0 ELSE CHOOSE i \in P : \A j \in P : i <= j

\* the destination holds what it held, then s; n is returned; rest is left
Appended(s, n, rest) == buf = into \o s /\ ret = n /\ iter = rest

\* the call split the remainder at a delimiter of width w found at k (k = 0:
\* not found, everything is taken)
SplitAt(k, w) ==
    IF k = 0 THEN Appended(pre, Len(pre), <<>>)
    ELSE Appended(Take(pre, k - 1), k - 1, Drop(pre, k + w - 1))

\* C1: read_to_crlf appends exactly the remaining bytes before the first
\* adjacent CR LF pair, discards the pair and returns the number of bytes
\* appended; a CR not followed by LF is content; with no CR LF pair all
\* remaining bytes are appended and the cursor is exhausted.
C1_ReadToCrlf == op = "read_to_crlf" => SplitAt(FirstCrlf(pre), 2)

\* a lone CR was kept as content and a later CR LF pair ended the token
C1_Witness ==
    /\ op = "read_to_crlf"
    /\ FirstCrlf(pre) > 1
    /\ \E i \in 1..(FirstCrlf(pre) - 1) : pre[i] = CR
    /\ ret = FirstCrlf(pre) - 1

\* C2 (as claimed): Read::read drains all r remaining bytes, copies the first
\* min(r, c) of them into buf[0..min(r, c)] and returns min(r, c).
C2_ReadReturnsMin ==
    op = "read" =>
        LET m == Min(Len(pre), Len(into))
        IN  /\ iter = <<>>
            /\ "panic" \notin faults
            /\ ret = m
            /\ Take(buf, m) = Take(pre, m)

ReadOps == {"read_to_crlf", "read_to_char", "read_to_space", "read_to_lf",
            "read_to_null", "take_hex", "take_crlf", "take_crlf_strings",
            "read", "read_to_end", "read_to_string"}

\* C3 (as claimed): on an exhausted cursor every read-type call returns a
\* zero count or empty result without error or panic, emits nothing and
\* leaves the cursor exhausted (so that it can be repeated).
C3_ExhaustedReadsZero ==
    (op \in ReadOps /\ pre = <<>>) =>
        /\ faults = {}
        /\ ret = 0
        /\ buf = into
        /\ lines = <<>>
        /\ iter = <<>>

\* C4 (as claimed): take_crlf and take_crlf_strings stop only at
\* end-of-input, so the cursor is exhausted when they return.
C4_TakeCrlfExhausts == op \in {"take_crlf", "take_crlf_strings"} => iter = <<>>

\* C5 (as claimed): Read::read never underflows in calc_read, never indexes
\* out of bounds in load_buf and never panics.
C5_ReadIsSafe == op = "read" => faults = {}

\* what the last call handed to its caller
Emitted ==
    CASE op \in {"read_to_crlf", "read_to_char", "read_to_space", "read_to_lf",
                 "read_to_null", "read_to_end", "read_to_string"}
              -> Drop(buf, Len(into))
      [] op = "read" -> Take(buf, ret)
      [] op \in {"take_hex", "to_vec"} -> buf
      [] OTHER -> <<>>

NoNul(s) == \A i \in 1..Len(s) : s[i] # NULL

\* C6: whatever bytes the cursor was constructed from, its remaining bytes
\* never contain 0x00 and no call emits a 0x00 byte.
C6_NoNul ==
    /\ NoNul(iter)
    /\ NoNul(Emitted)
    /\ \A i \in 1..Len(lines) : NoNul(lines[i])

\* a cursor built from bytes with a NUL has emitted bytes and still holds some
C6_Witness ==
    /\ ~NoNul(buffer)
    /\ op \in ReadOps
    /\ Emitted # <<>>
    /\ iter # <<>>

\* C7: read_to_null and Read::read_to_end never find their delimiter: they
\* append the whole remainder, return its length and exhaust the cursor.
C7_ReadToNullTakesAll ==
    op \in {"read_to_null", "read_to_end"} => Appended(pre, Len(pre), <<>>)

\* the analogue of "foo\x00bar": bytes on both sides of a NUL, all returned
C7_Witness ==
    /\ op \in {"read_to_null", "read_to_end"}
    /\ \E i \in 2..(Len(buffer) - 1) :
          buffer[i] = NULL /\ buffer[i - 1] # NULL /\ buffer[i + 1] # NULL
    /\ pre = strip_null(buffer)
    /\ ret = Len(buffer) - 1

\* the delimiter a single-byte read looks for
Delim ==
    CASE op = "read_to_char" -> arg[1]
      [] op = "read_to_space" -> SP
      [] op = "read_to_lf" -> LF

\* C8: read_to_char(d) appends exactly the remaining bytes before the first
\* d, discards that one d, leaves the bytes after it and returns the number
\* appended; without a d it appends everything; it returns 0 on an exhausted
\* cursor or when d comes first.  read_to_space / read_to_lf are d = 0x20 /
\* d = 0x0A.
C8_ReadToChar ==
    op \in {"read_to_char", "read_to_space", "read_to_lf"} =>
        /\ SplitAt(FirstIndex(pre, Delim), 1)
        /\ (pre = <<>> \/ pre[1] = Delim) => ret = 0

\* the delimiter was found after some content and bytes after it remain
C8_Witness ==
    /\ op \in {"read_to_char", "read_to_space", "read_to_lf"}
    /\ FirstIndex(pre, Delim) > 1
    /\ ret > 0
    /\ iter # <<>>

\* C9: trim_crlf(s) is a prefix of s that does not end with CR LF, what it
\* removed is a run of whole CR LF pairs, and trimming the result again
\* changes nothing.
C9_TrimCrlf ==
    uop = "trim_crlf" =>
        LET removed == Drop(us, Len(ures))
        IN  /\ IsPrefix(ures, us)
            /\ ~ends_with(ures, CRLF)
            /\ Len(removed) % 2 = 0
            /\ \A i \in 1..Len(removed) : removed[i] = IF i % 2 = 1 THEN CR ELSE LF
            /\ trim_crlf(ures) = ures

\* two trailing CR LF pairs were removed
C9_Witness == uop = "trim_crlf" /\ Len(us) - Len(ures) >= 4

\* C10: trim_chars(s, p) removes a trailing p at most once: a non-empty s
\* ending with p loses its last len(p) bytes, even when the result still ends
\* with p; otherwise s is unchanged; an empty p leaves s unchanged.
C10_TrimCharsOnce ==
    uop = "trim_chars" =>
        /\ ures = IF us # <<>> /\ IsSuffix(up, us)
                  THEN Take(us, Len(us) - Len(up)) ELSE us
        /\ up = <<>> => ures = us

\* a trailing pattern was removed and the result still ends with it
C10_Witness ==
    /\ uop = "trim_chars"
    /\ up # <<>>
    /\ Len(ures) = Len(us) - Len(up)
    /\ ends_with(ures, up)

\* length of the longest prefix of s whose bytes all belong to the set S
LeadRun(s, S) ==
    LET Ok(k) == \A i \in 1..k : s[i] \in S
    IN  CHOOSE k \in 0..Len(s) : Ok(k) /\ (k = Len(s) \/ s[k + 1] \notin S)

\* the 22 hex digits: 0-9, A-F, a-f
HexBytes == (48..57) \cup (65..70) \cup (97..102)

\* C11: take_hex returns the maximal leading run of hex digits and consumes
\* exactly those bytes; the first non-hex byte stays the next byte; the result
\* is empty and the cursor unchanged when the first byte is not hex or the
\* cursor is exhausted.
C11_TakeHex ==
    op = "take_hex" =>
        LET k == LeadRun(pre, HexBytes)
        IN  /\ buf = Take(pre, k)
            /\ iter = Drop(pre, k)
            /\ (pre = <<>> \/ pre[1] \notin HexBytes) => (buf = <<>> /\ iter = pre)

\* as with "1a2Zx": a run with a digit and a lower-case hex letter, stopped
\* by a non-hex byte that is still there
C11_Witness ==
    /\ op = "take_hex"
    /\ \E i \in 1..Len(buf) : buf[i] \in 48..57
    /\ \E i \in 1..Len(buf) : buf[i] \in 97..102
    /\ iter # <<>>
    /\ iter[1] \notin HexBytes

\* C12: as_lower(s) and to_lower(s) return the same sequence, as long as s,
\* with every byte of A-Z replaced by byte + 32 (which fits in 8 bits) and
\* every other byte unchanged.
C12_Lower ==
    uop \in {"as_lower", "to_lower"} =>
        /\ Len(ures) = Len(us)
        /\ \A i \in 1..Len(us) :
              IF us[i] \in 65..90
              THEN us[i] + 32 <= 255 /\ ures[i] = us[i] + 32
              ELSE ures[i] = us[i]
        /\ as_lower(us) = to_lower(us)

\* 'A' and 'Z' were folded while a lower-case letter and a byte >= 0x80
\* passed through
C12_Witness ==
    /\ uop \in {"as_lower", "to_lower"}
    /\ \E i \in 1..Len(us) : us[i] = 65 /\ ures[i] = 97
    /\ \E i \in 1..Len(us) : us[i] = 90 /\ ures[i] = 122
    /\ \E i \in 1..Len(us) : us[i] = 97 /\ ures[i] = 97
    /\ \E i \in 1..Len(us) : us[i] >= 128 /\ ures[i] = us[i]

\* s cut at its CR LF pairs: the runs before each pair, then whatever follows
\* the last pair when that is not empty
RECURSIVE SplitCrlf(_)
SplitCrlf(s) ==
    IF s = <<>> THEN <<>>
    ELSE LET k == FirstCrlf(s)
         IN  IF k = 0 THEN <<s>>
             ELSE <<Take(s, k - 1)>> \o SplitCrlf(Drop(s, k + 1))

\* s is a concatenation of non-empty lines without CR LF and NUL, each
\* followed by CR LF
IsLineBuffer(s) ==
    LET ls == SplitCrlf(s)
    IN  /\ s = JoinCrlf(ls)
        /\ \A i \in 1..Len(ls) : ls[i] # <<>> /\ FirstCrlf(ls[i]) = 0 /\ NoNul(ls[i])

\* C13: on a buffer of n >= 0 non-empty CR LF terminated lines take_crlf
\* returns exactly those lines in order, without the terminators and without
\* a trailing empty line, and leaves the cursor exhausted.
C13_TakeCrlfLines ==
    (op = "take_crlf" /\ IsLineBuffer(pre)) =>
        /\ lines = SplitCrlf(pre)
        /\ JoinCrlf(lines) = pre
        /\ iter = <<>>

\* "A\r\nBB\r\n" gave ["A", "BB"]
C13_Witness ==
    /\ op = "take_crlf"
    /\ pre = <<65, CR, LF, 66, 66, CR, LF>>
    /\ lines = << <<65>>, <<66, 66>> >>
    /\ iter = <<>>

\* the positions of the non-zero bytes of s, and s without its zero bytes
NonZero(s) == {i \in 1..Len(s) : s[i] # NULL}

Stripped(s) ==
    [n \in 1..Cardinality(NonZero(s)) |->
        s[CHOOSE i \in NonZero(s) : Cardinality({j \in NonZero(s) : j <= i}) = n]]

\* C14: the cursor is forward-only: its remainder is always a suffix of the
\* NUL-stripped buffer it was constructed with, and every call leaves a
\* suffix of the remainder it found.
C14_ForwardOnly ==
    /\ [](IsSuffix(iter, Stripped(buffer)))
    /\ [][IsSuffix(iter', iter)]_vars

\* a cursor built from bytes with a NUL has moved forward in two calls
C14_Witness ==
    /\ ~NoNul(buffer)
    /\ op \notin Constructors
    /\ Len(iter) < Len(pre)
    /\ Len(pre) < Len(Stripped(buffer))

\* C15: strip_null(s) has no 0x00 byte and is s with every 0x00 removed
\* wherever it occurs: the non-zero bytes in their order and nothing else.
C15_StripNull ==
    uop = "strip_null" =>
        /\ NoNul(ures)
        /\ ures = Stripped(us)

\* a NUL in the middle of s was removed and the bytes around it were kept
C15_Witness ==
    /\ uop = "strip_null"
    /\ \E i \in 2..(Len(us) - 1) : us[i] = NULL /\ us[i - 1] # NULL /\ us[i + 1] # NULL
    /\ Len(ures) >= 2

\* C16: is_hex(s) is true exactly when every byte of s is one of the 22 hex
\* digits; is_hex of the empty sequence is true.
C16_IsHex ==
    uop = "is_hex" =>
        /\ ures = (\A i \in 1..Len(us) : us[i] \in HexBytes)
        /\ us = <<>> => ures = TRUE

\* a sequence of hex digits of both cases was accepted
C16_Witness ==
    /\ uop = "is_hex"
    /\ ures = TRUE
    /\ \E i \in 1..Len(us) : us[i] = 65
    /\ \E i \in 1..Len(us) : us[i] = 97

\* C17: skip_to_crlf leaves the cursor where read_to_crlf would leave it from
\* the same state (just past the first adjacent CR LF pair, or exhausted) and
\* emits nothing.
C17_SkipLikeRead ==
    op = "skip_to_crlf" =>
        /\ iter = read_to_crlf(pre, <<>>).iter
        /\ iter = IF FirstCrlf(pre) = 0 THEN <<>> ELSE Drop(pre, FirstCrlf(pre) + 1)
        /\ buf = <<>>
        /\ lines = <<>>

\* a lone CR was skipped over, the CR LF pair after it ended the skip, and
\* bytes remain
C17_Witness ==
    /\ op = "skip_to_crlf"
    /\ FirstCrlf(pre) > 1
    /\ \E i \in 1..(FirstCrlf(pre) - 1) : pre[i] = CR
    /\ iter # <<>>

\* C18: skip_chars(S) consumes exactly the maximal leading run of bytes of S;
\* the first non-member is not consumed; with an empty S or a first byte
\* outside S the cursor is unchanged.
C18_SkipChars ==
    op = "skip_chars" =>
        LET S == {arg[i] : i \in 1..Len(arg)}
        IN  /\ iter = Drop(pre, LeadRun(pre, S))
            /\ (S = {} \/ pre = <<>> \/ pre[1] \notin S) => iter = pre

\* two members of a two-byte set were skipped and a non-member stopped the run
C18_Witness ==
    /\ op = "skip_chars"
    /\ Len(arg) = 2
    /\ Len(pre) - Len(iter) >= 2
    /\ pre[1] # pre[2]
    /\ iter # <<>>

\* C20: byte conservation: along any sequence of read_to_crlf, read_to_char,
\* take_hex, skip_chars and skip_to_crlf calls, what the calls emitted,
\* skipped and discarded as delimiters, in call order, followed by what is
\* left, is the NUL-stripped constructed buffer; to_vec returns exactly what
\* was left.
C20_Conservation ==
    /\ acct \o iter = Stripped(buffer)
    /\ op = "to_vec" => (buf = pre /\ acct = Stripped(buffer))

\* earlier calls accounted for a content byte and the delimiter after it,
\* then to_vec returned a non-empty rest
C20_Witness ==
    /\ op = "to_vec"
    /\ buf # <<>>
    /\ Len(acct) = Len(buf) + 2
    /\ acct[1] = 65
    /\ acct[2] = LF

\* C19: every cursor call terminates: an iteration that does not leave its
\* loop consumes at least one byte of the remainder, so a running loop always
\* comes to its end (take_crlf and take_crlf_strings included).
C19_Terminates ==
    /\ [][(pc = "run" /\ pc' = "run") => Len(iter') < Len(iter)]_vars
    /\ (pc = "run" ~> pc = "done")

\* take_crlf went round its loop for two lines and ended
C19_Witness ==
    /\ pc = "done"
    /\ op = "take_crlf"
    /\ Len(lines) >= 2
    /\ iter = <<>>

\* the calls run by iterations end as the calls run as a whole
LoopAgrees ==
    pc = "done" =>
        CASE op = "read_to_crlf" ->
                LET r == read_to_crlf(pre, <<>>)
                IN  iter = r.iter /\ buf = r.buf /\ ret = r.ret
          [] op = "read_to_char" ->
                LET r == read_to_char(pre, arg[1], <<>>)
                IN  iter = r.iter /\ buf = r.buf /\ ret = r.ret
          [] op = "skip_chars" -> iter = skip_chars(pre, arg)
          [] op = "skip_to_crlf" -> iter = skip_to_crlf(pre)
          [] op = "take_hex" -> iter = take_hex(pre).iter /\ buf = take_hex(pre).buf
          [] op = "take_crlf" ->
                iter = take_crlf(pre, <<>>).iter /\ lines = take_crlf(pre, <<>>).lines
          [] op = "take_crlf_strings" ->
                /\ iter = take_crlf_strings(pre, <<>>).iter
                /\ lines = take_crlf_strings(pre, <<>>).lines
          [] op = "read" ->
                \E build \in Builds :
                    LET r == Read_read(pre, into, build)
                    IN  iter = r.iter /\ buf = r.buf /\ ret = r.ret /\ faults = r.faults
====
